---- MODULE Spec2Model ----
(***************************************************************************)
(* Model of the flatpak bundle decoder of Devcade-api                      *)
(* (src/src/games/flatpak.rs): FlatpakFile::load, get_metadata_key and     *)
(* get_hash over a glib Variant tree.                                      *)
(*                                                                         *)
(* A Variant is a record [tag, kids, str, num]:                            *)
(*   tag  "Tuple" | "Array" | "DictEntry" | "Boxed" (glib type v)          *)
(*        | "Byte" | "UInt64" | "String"                                   *)
(*   kids the children of a container, in order (<<>> for a scalar)        *)
(*   str  the text of a String, a sequence of characters                   *)
(*   num  the number of a Byte or UInt64                                   *)
(* Child indices are zero-based as in the code; kids[i + 1] is child i.    *)
(*                                                                         *)
(* The root is the 6-tuple the type string of flatpak.rs:64 fixes; the     *)
(* elements of field 3 are bytes as that type string says. What load       *)
(* itself guards (field 0 being a container, the arity of every metadata   *)
(* entry, field 3 being a container of 32 children) is left open in the    *)
(* inputs, and so are the things get_metadata_key guards (a key that is    *)
(* not a string, a value that is or is not boxed, a value of another type).*)
(***************************************************************************)
EXTENDS Integers, Sequences, FiniteSets, TLC

(* ------------------------------ bounds -------------------------------- *)

\* The largest number of metadata entries of an input.
MaxEntries == 2

(* ------------------------- program constants -------------------------- *)

\* self.0.child_value(0) / variant.child_value(0): the metadata field.
MetadataIndex == 0
\* variant.child_value(3): the checksum field.
ChecksumIndex == 3
\* child.n_children() != 2
EntryArity == 2
\* checksum.n_children() != 32
ChecksumLen == 32

(* --------------------------- Variant values --------------------------- *)

Mk(tag, kids, str, num) == [tag |-> tag, kids |-> kids, str |-> str, num |-> num]

Tuple(kids) == Mk("Tuple", kids, <<>>, 0)
Array(kids) == Mk("Array", kids, <<>>, 0)
DictEntry(k, v) == Mk("DictEntry", <<k, v>>, <<>>, 0)
Boxed(v) == Mk("Boxed", <<v>>, <<>>, 0)
Byte(n) == Mk("Byte", <<>>, <<>>, n)
UInt64(n) == Mk("UInt64", <<>>, <<>>, n)
Str(s) == Mk("String", <<>>, s, 0)

\* What an out-of-bounds child_value stands for in the model: the call panics.
NoVariant == Mk("None", <<>>, <<>>, 0)

\* Variant::is_container: by type; tuples, arrays, dict entries and v are containers.
is_container(v) == v.tag \in {"Tuple", "Array", "DictEntry", "Boxed"}

\* Variant::n_children
n_children(v) == Len(v.kids)

\* Whether child_value(v, index) is a legal access.
InBounds(v, index) == is_container(v) /\ index >= 0 /\ index < n_children(v)

\* Variant::child_value
child_value(v, index) == IF InBounds(v, index) THEN v.kids[index + 1] ELSE NoVariant

\* Variant::as_variant: Some(inner) (here <<inner>>) for a boxed value, None (<<>>) otherwise.
as_variant(v) == IF v.tag = "Boxed" THEN <<v.kids[1]>> ELSE <<>>

\* Whether every child of v is a byte.
AllBytes(v) == \A i \in 1..Len(v.kids) : v.kids[i].tag = "Byte"

\* A decoded value of type ty.
Decoded(ty, str, nums) == [ty |-> ty, str |-> str, nums |-> nums]

\* T::from_variant for T in String, u64, Vec<u8>: <<value>> for Some, <<>> for None.
from_variant(ty, v) ==
    CASE ty = "String" ->
           IF v.tag = "String" THEN <<Decoded("String", v.str, <<>>)>> ELSE <<>>
      [] ty = "u64" ->
           IF v.tag = "UInt64" THEN <<Decoded("u64", <<>>, <<v.num>>)>> ELSE <<>>
      [] ty = "Vec<u8>" ->
           IF v.tag = "Array" /\ AllBytes(v)
           THEN <<Decoded("Vec<u8>", <<>>, [i \in 1..Len(v.kids) |-> v.kids[i].num])>>
           ELSE <<>>
      [] OTHER -> <<>>

(* ------------------------------ hex::encode --------------------------- *)

HexDigits == <<"0", "1", "2", "3", "4", "5", "6", "7",
               "8", "9", "a", "b", "c", "d", "e", "f">>

\* The two lowercase hex characters of one byte, high nibble first.
HexOfByte(b) == <<HexDigits[(b \div 16) + 1], HexDigits[(b % 16) + 1]>>

RECURSIVE HexEncode(_)
\* hex::encode: the characters of every byte in order, no separators.
HexEncode(bytes) ==
    IF bytes = <<>> THEN <<>> ELSE HexOfByte(Head(bytes)) \o HexEncode(Tail(bytes))

(* --------------------------- access records --------------------------- *)

\* One child_value call: on which value ("root", "metadata", "entry"), the index
\* asked for, and whether the index is below the child count of a container.
Access(of, v, index) == [of |-> of, index |-> index, ok |-> InBounds(v, index)]

\* Whether some recorded access was out of bounds.
AnyOutOfBounds(log) == \E i \in 1..Len(log) : ~log[i].ok

(* ------------------------- FlatpakFile::load -------------------------- *)

\* Mutant of entry_invalid: the arity of the entry is not checked.
entry_invalid_no_arity(child) == ~is_container(child)

\* Mutant of entry_invalid: only entries with more than 2 children are rejected.
entry_invalid_lenient(child) == ~is_container(child) \/ n_children(child) > EntryArity

\* !child.is_container() || child.n_children() != 2
entry_invalid(child) == ~is_container(child) \/ n_children(child) # EntryArity

\* Mutant of checksum_invalid: only a checksum that is too short is rejected.
checksum_invalid_short(checksum) ==
    ~is_container(checksum) \/ n_children(checksum) < ChecksumLen

\* !checksum.is_container() || checksum.n_children() != 32
checksum_invalid(checksum) == ~is_container(checksum) \/ n_children(checksum) # ChecksumLen

RECURSIVE scan_entries_no_stop(_, _)
\* Mutant of scan_entries: the loop notes a bad entry and goes on to the end.
scan_entries_no_stop(metadata, index) ==
    IF index >= n_children(metadata) THEN [bad |-> FALSE, log |-> <<>>]
    ELSE LET child == child_value(metadata, index)
             here == <<Access("metadata", metadata, index)>>
             rest == scan_entries_no_stop(metadata, index + 1)
         IN [bad |-> entry_invalid(child) \/ rest.bad, log |-> here \o rest.log]

RECURSIVE scan_entries(_, _)
\* for index in 0..metadata.n_children(): the loop from `index` on. bad: an entry
\* failed the check and the loop returned; log: the entries it fetched.
scan_entries(metadata, index) ==
    IF index >= n_children(metadata) THEN [bad |-> FALSE, log |-> <<>>]
    ELSE LET child == child_value(metadata, index)
             here == <<Access("metadata", metadata, index)>>
         IN IF entry_invalid(child) THEN [bad |-> TRUE, log |-> here]
            ELSE LET rest == scan_entries(metadata, index + 1)
                 IN [bad |-> rest.bad, log |-> here \o rest.log]

\* The result of an operation: a child_value out of bounds panics.
Outcome(res, log) == [res |-> IF AnyOutOfBounds(log) THEN "Panic" ELSE res, log |-> log]

\* Mutant of load: the checksum is checked before the metadata.
load_checksum_first(variant) ==
    LET checksum == child_value(variant, ChecksumIndex)
        log0 == <<Access("root", variant, ChecksumIndex)>>
    IN IF checksum_invalid(checksum) THEN Outcome("BadChecksumLength", log0)
       ELSE LET metadata == child_value(variant, MetadataIndex)
                log1 == log0 \o <<Access("root", variant, MetadataIndex)>>
            IN IF ~is_container(metadata) THEN Outcome("MetadataNotContainer", log1)
               ELSE LET scan == scan_entries(metadata, 0)
                    IN IF scan.bad
                       THEN Outcome("MetadataChildNotContainer", log1 \o scan.log)
                       ELSE Outcome("Ok", log1 \o scan.log)

\* Mutant of load: the length check reads field 2 of the root, not field 3.
load_checks_field_2(variant) ==
    LET metadata == child_value(variant, MetadataIndex)
        log0 == <<Access("root", variant, MetadataIndex)>>
    IN IF ~is_container(metadata) THEN Outcome("MetadataNotContainer", log0)
       ELSE LET scan == scan_entries(metadata, 0)
                log1 == log0 \o scan.log
            IN IF scan.bad THEN Outcome("MetadataChildNotContainer", log1)
               ELSE LET checksum == child_value(variant, ChecksumIndex - 1)
                        log2 == log1 \o <<Access("root", variant, ChecksumIndex - 1)>>
                    IN IF checksum_invalid(checksum)
                       THEN Outcome("BadChecksumLength", log2)
                       ELSE Outcome("Ok", log2)

\* FlatpakFile::load on the variant Variant::from_data_with_type produced.
\* res: "Ok" or the FlatpakDecodingError returned; log: the child_value calls made.
load(variant) ==
    LET metadata == child_value(variant, MetadataIndex)
        log0 == <<Access("root", variant, MetadataIndex)>>
    IN IF ~is_container(metadata) THEN Outcome("MetadataNotContainer", log0)
       ELSE LET scan == scan_entries(metadata, 0)
                log1 == log0 \o scan.log
            IN IF scan.bad THEN Outcome("MetadataChildNotContainer", log1)
               ELSE LET checksum == child_value(variant, ChecksumIndex)
                        log2 == log1 \o <<Access("root", variant, ChecksumIndex)>>
                    IN IF checksum_invalid(checksum)
                       THEN Outcome("BadChecksumLength", log2)
                       ELSE Outcome("Ok", log2)

(* -------------------- FlatpakFile::get_metadata_key ------------------- *)

NoDecoded == Decoded("none", <<>>, <<>>)

\* Result<T, FlatpakMetadataError<T>>: kind "Ok" with val, or "MissingKey" /
\* "IncorrectFormat" with the key the error carries.
OkValue(val) == [kind |-> "Ok", key |-> <<>>, val |-> val]
MissingKey(key) == [kind |-> "MissingKey", key |-> key, val |-> NoDecoded]
IncorrectFormat(key) == [kind |-> "IncorrectFormat", key |-> key, val |-> NoDecoded]
Panicked == [kind |-> "Panic", key |-> <<>>, val |-> NoDecoded]
NoResult == [kind |-> "None", key |-> <<>>, val |-> NoDecoded]

\* Mutant of unbox_once: the value is decoded as stored.
unbox_once_never(value) == value

\* match value.as_variant() { Some(value) => value, None => value }
unbox_once(value) == IF as_variant(value) # <<>> THEN as_variant(value)[1] ELSE value

\* T::from_variant(&value).ok_or_else(|| IncorrectFormat(key.to_string(), ..))
decode_value(value, key, ty) ==
    LET decoded == from_variant(ty, unbox_once(value))
    IN IF decoded # <<>> THEN OkValue(decoded[1]) ELSE IncorrectFormat(key)

RECURSIVE lookup_from_retry(_, _, _, _)
\* Mutant of lookup_from: a matching entry whose value does not decode is passed
\* over and the scan goes on to a later entry with the same key.
lookup_from_retry(dict_array, key, ty, index) ==
    IF index >= n_children(dict_array) THEN [res |-> MissingKey(key), log |-> <<>>]
    ELSE LET dict_entry == child_value(dict_array, index)
             candidate_key == from_variant("String", child_value(dict_entry, 0))
             log0 == <<Access("metadata", dict_array, index), Access("entry", dict_entry, 0)>>
             matches == candidate_key # <<>> /\ candidate_key[1].str = key
             got == decode_value(child_value(dict_entry, 1), key, ty)
         IN IF matches /\ got.kind = "Ok"
            THEN [res |-> got, log |-> log0 \o <<Access("entry", dict_entry, 1)>>]
            ELSE LET rest == lookup_from_retry(dict_array, key, ty, index + 1)
                 IN [res |-> IF matches /\ rest.res.kind = "MissingKey"
                             THEN IncorrectFormat(key) ELSE rest.res,
                     log |-> log0 \o rest.log]

RECURSIVE lookup_from_first_key(_, _, _, _)
\* Mutant of lookup_from: the first entry whose key is a string other than the
\* requested one ends the scan with MissingKey.
lookup_from_first_key(dict_array, key, ty, index) ==
    IF index >= n_children(dict_array) THEN [res |-> MissingKey(key), log |-> <<>>]
    ELSE LET dict_entry == child_value(dict_array, index)
             candidate_key == from_variant("String", child_value(dict_entry, 0))
             log0 == <<Access("metadata", dict_array, index), Access("entry", dict_entry, 0)>>
         IN IF candidate_key # <<>> /\ candidate_key[1].str = key
            THEN [res |-> decode_value(child_value(dict_entry, 1), key, ty),
                  log |-> log0 \o <<Access("entry", dict_entry, 1)>>]
            ELSE IF candidate_key # <<>>
            THEN [res |-> MissingKey(key), log |-> log0]
            ELSE LET rest == lookup_from_first_key(dict_array, key, ty, index + 1)
                 IN [res |-> rest.res, log |-> log0 \o rest.log]

RECURSIVE lookup_from_bad_key_fails(_, _, _, _)
\* Mutant of lookup_from: a key that does not decode as a string ends the scan
\* with IncorrectFormat.
lookup_from_bad_key_fails(dict_array, key, ty, index) ==
    IF index >= n_children(dict_array) THEN [res |-> MissingKey(key), log |-> <<>>]
    ELSE LET dict_entry == child_value(dict_array, index)
             candidate_key == from_variant("String", child_value(dict_entry, 0))
             log0 == <<Access("metadata", dict_array, index), Access("entry", dict_entry, 0)>>
         IN IF candidate_key = <<>>
            THEN [res |-> IncorrectFormat(key), log |-> log0]
            ELSE IF candidate_key[1].str = key
            THEN [res |-> decode_value(child_value(dict_entry, 1), key, ty),
                  log |-> log0 \o <<Access("entry", dict_entry, 1)>>]
            ELSE LET rest == lookup_from_bad_key_fails(dict_array, key, ty, index + 1)
                 IN [res |-> rest.res, log |-> log0 \o rest.log]

RECURSIVE lookup_from(_, _, _, _)
\* for index in 0..dict_array.n_children(): the loop from `index` on, and the
\* Err(MissingKey) after it.
lookup_from(dict_array, key, ty, index) ==
    IF index >= n_children(dict_array) THEN [res |-> MissingKey(key), log |-> <<>>]
    ELSE LET dict_entry == child_value(dict_array, index)
             candidate_key == from_variant("String", child_value(dict_entry, 0))
             log0 == <<Access("metadata", dict_array, index), Access("entry", dict_entry, 0)>>
         IN IF candidate_key # <<>> /\ candidate_key[1].str = key
            THEN [res |-> decode_value(child_value(dict_entry, 1), key, ty),
                  log |-> log0 \o <<Access("entry", dict_entry, 1)>>]
            ELSE LET rest == lookup_from(dict_array, key, ty, index + 1)
                 IN [res |-> rest.res, log |-> log0 \o rest.log]

\* FlatpakFile::get_metadata_key::<T>(key) on the bundle self.0 = file.
get_metadata_key(file, key, ty) ==
    LET dict_array == child_value(file, MetadataIndex)
        found == lookup_from(dict_array, key, ty, 0)
        log == <<Access("root", file, MetadataIndex)>> \o found.log
    IN [res |-> IF AnyOutOfBounds(log) THEN Panicked ELSE found.res, log |-> log]

(* ----------------------- FlatpakFile::get_hash ------------------------ *)

\* Mutant of get_hash: the bytes are read from field 2 of the root.
get_hash_wrong_field(file) ==
    LET log == <<Access("root", file, ChecksumIndex - 1)>>
        bytes == from_variant("Vec<u8>", child_value(file, ChecksumIndex - 1))
    IN IF AnyOutOfBounds(log) \/ bytes = <<>>
       THEN [kind |-> "Panic", str |-> <<>>, log |-> log]
       ELSE [kind |-> "Ok", str |-> HexEncode(bytes[1].nums), log |-> log]

\* hex::encode(<Vec<u8>>::from_variant(&self.0.child_value(3)).unwrap()):
\* kind "Ok" with the characters, or "Panic" when unwrap meets None.
get_hash(file) ==
    LET log == <<Access("root", file, ChecksumIndex)>>
        bytes == from_variant("Vec<u8>", child_value(file, ChecksumIndex))
    IN IF AnyOutOfBounds(log) \/ bytes = <<>>
       THEN [kind |-> "Panic", str |-> <<>>, log |-> log]
       ELSE [kind |-> "Ok", str |-> HexEncode(bytes[1].nums), log |-> log]


(* ------------------------------- inputs ------------------------------- *)

KeyRef == <<"r", "e", "f">>
KeyId == <<"i", "d">>
\* The keys a caller asks for.
RequestedKeys == {KeyRef, KeyId}
\* The types a caller asks for.
RequestedTypes == {"String", "u64"}

TextA == <<"a", "p", "p">>
TextB == <<"x">>

\* Keys of metadata entries: strings, and one that does not decode as a string.
EntryKeys == {Str(KeyRef), Str(KeyId), UInt64(7)}
\* Values of metadata entries: strings boxed once (as a{sv} stores them) and
\* not boxed, and a boxed value of a type other than string.
EntryValues == {Boxed(Str(TextA)), Boxed(Str(TextB)), Str(TextA), Boxed(UInt64(5))}
\* Entries load accepts.
GoodEntries == {DictEntry(k, v) : k \in EntryKeys, v \in EntryValues}
\* Entries load rejects: a scalar, and containers of 1 and of 3 children.
BadEntries == {Str(KeyRef),
               Tuple(<<Str(KeyRef)>>),
               Tuple(<<Str(KeyRef), Boxed(Str(TextA)), UInt64(1)>>)}
Entries == GoodEntries \cup BadEntries

\* All sequences over S of length at most n.
SeqsUpTo(S, n) == UNION {[1..k -> S] : k \in 0..n}

\* Field 0: an array of entries, or a value that is no container.
MetadataFields == {Array(es) : es \in SeqsUpTo(Entries, MaxEntries)}
                    \cup {UInt64(0), Str(TextA)}

\* len bytes, the i-th (from 0) being seed + i * step modulo 256.
ByteArray(len, seed, step) ==
    Array([i \in 1..len |-> Byte((seed + (i - 1) * step) % 256)])

\* Field 3: byte arrays of 32 elements (all zero, all 0xff, mixed), of 31 and 33
\* elements, and a value that is no container.
ChecksumFields == {ByteArray(ChecksumLen, 0, 0), ByteArray(ChecksumLen, 255, 0),
                   ByteArray(ChecksumLen, 9, 13),
                   ByteArray(ChecksumLen - 1, 9, 13), ByteArray(ChecksumLen + 1, 9, 13),
                   UInt64(0)}

\* The root tuple (a{sv} t ay ay (...) a(...)): fields 1, 2, 4 and 5 are not read.
Root(metadata, checksum) ==
    Tuple(<<metadata, UInt64(1), Array(<<>>), checksum, Tuple(<<>>), Array(<<>>)>>)

Inputs == {Root(m, c) : m \in MetadataFields, c \in ChecksumFields}

(* ------------------------------- state -------------------------------- *)

VARIABLES
    variant,     \* what Variant::from_data_with_type made of the uploaded bytes
    pc,          \* "start": load not yet called; "loaded": Ok(file); "failed": Err
    file,        \* the FlatpakFile load returned (its Variant), NoVariant if none
    loadResult,  \* [res, log] of load
    lookup,      \* the last get_metadata_key call: [key, ty, res, log]
    hash,        \* the last get_hash call: [kind, str, log]
    oob,         \* whether any child_value call so far was out of bounds
    threads,     \* per thread: the get_metadata_key / get_hash call it is in
    twin,        \* a second input and the results of the same calls on it
    db,          \* the game table (by id) and the game_tags table
    s3,          \* the objects of the games bucket: key -> body
    req          \* the last request a route handler answered

\* The state of the decoder and of its single caller.
flatpakVars == <<variant, pc, file, loadResult, lookup, hash, oob>>

\* What the single caller of the decoder does not touch.
otherVars == <<threads, twin, db, s3, req>>

\* The state of the routes: database, object storage, last request.
routeVars == <<db, s3, req>>

vars == <<variant, pc, file, loadResult, lookup, hash, oob, threads, twin, db, s3, req>>

NoLookup == [key |-> <<>>, ty |-> "none", res |-> NoResult, log |-> <<>>]
NoHash == [kind |-> "None", str |-> <<>>, log |-> <<>>]

\* The largest number of threads sharing one bundle.
NumThreads == 2
Threads == 1..NumThreads

\* A thread that is in no call.
IdleThread == [st |-> "idle", op |-> "none", key |-> <<>>, ty |-> "none",
               index |-> 0, res |-> NoResult, hash |-> NoHash]
NoThreads == [t \in Threads |-> IdleThread]

NoLoad == [res |-> "None", log |-> <<>>]
NoTwin == [variant |-> NoVariant, loadResult |-> NoLoad, lookup |-> NoLookup,
           hash |-> NoHash]

\* The ids of games: path parameters and Uuid::new_v4() values.
GameIds == {<<"g", "1">>, <<"g", "2">>}

\* A row of the game table (hash <<>>: NULL), and no row.
GameRow(name, description, gameHash) ==
    [present |-> TRUE, name |-> name, description |-> description, hash |-> gameHash]
NoRow == [present |-> FALSE, name |-> "", description |-> "", hash |-> <<>>]

\* game and game_tags without rows.
EmptyDb == [game |-> [id \in GameIds |-> NoRow], tags |-> {}]

\* The result of verify_and_upload_game before it is called.
NoVerify == [kind |-> "None", hash |-> <<>>, uploaded |-> FALSE, err |-> "",
             ref |-> <<>>]

\* The largest number of requests the routes handle in one run.
MaxRequests == 1

\* No request handled yet. seq: the number of requests handled so far;
\* status 0: none; -1: the handler panicked.
NoRequest == [seq |-> 0, handler |-> "none", id |-> <<>>, status |-> 0,
              before |-> EmptyDb,
              upload |-> NoVariant, verify |-> NoVerify,
              name |-> "", description |-> "", tags |-> <<>>, fault |-> "none",
              query_failed |-> FALSE]

\* No route has been called.
RoutesIdle ==
    /\ db = EmptyDb
    /\ s3 = {}
    /\ req = NoRequest

\* Before FlatpakFile::load is called.
BeforeLoad ==
    /\ pc = "start"
    /\ file = NoVariant
    /\ loadResult = NoLoad
    /\ lookup = NoLookup
    /\ hash = NoHash
    /\ oob = FALSE

Init ==
    /\ variant \in Inputs
    /\ BeforeLoad
    /\ threads = NoThreads
    /\ twin = NoTwin
    /\ RoutesIdle

\* FlatpakFile::load(bytes): Ok(FlatpakFile(variant)) or Err(..).
Load ==
    /\ pc = "start"
    /\ loadResult' = load(variant)
    /\ pc' = IF loadResult'.res = "Ok" THEN "loaded" ELSE "failed"
    /\ file' = IF loadResult'.res = "Ok" THEN variant ELSE NoVariant
    /\ oob' = (oob \/ AnyOutOfBounds(loadResult'.log))
    /\ UNCHANGED <<variant, lookup, hash>>
    /\ UNCHANGED otherVars

\* flatpak.get_metadata_key::<T>(key) on a loaded bundle.
GetMetadataKey ==
    /\ pc = "loaded"
    /\ \E key \in RequestedKeys, ty \in RequestedTypes :
          LET got == get_metadata_key(file, key, ty)
          IN /\ lookup' = [key |-> key, ty |-> ty, res |-> got.res, log |-> got.log]
             /\ oob' = (oob \/ AnyOutOfBounds(got.log))
    /\ UNCHANGED <<variant, pc, file, loadResult, hash>>
    /\ UNCHANGED otherVars

\* flatpak.get_hash() on a loaded bundle.
GetHash ==
    /\ pc = "loaded"
    /\ hash' = get_hash(file)
    /\ oob' = (oob \/ AnyOutOfBounds(hash'.log))
    /\ UNCHANGED <<variant, pc, file, loadResult, lookup>>
    /\ UNCHANGED otherVars

Next == Load \/ GetMetadataKey \/ GetHash

Spec == Init /\ [][Next]_vars

(* ------------- two inputs that differ in fields 1, 2, 4, 5 ------------ *)

\* Values of the fields <<1, 2, 4, 5>> of the root (t, ay, the commit tuple, the
\* delta array): the ones of Root; others; and a field 2 of 32 bytes with a
\* commit that has a "ref" entry of its own.
OtherFields ==
    {<<UInt64(1), Array(<<>>), Tuple(<<>>), Array(<<>>)>>,
     <<UInt64(2), ByteArray(2, 1, 1), Tuple(<<Array(<<>>)>>),
       Array(<<Tuple(<<Byte(1)>>)>>)>>,
     <<UInt64(1), ByteArray(ChecksumLen, 255, 0),
       Tuple(<<Array(<<DictEntry(Str(KeyRef), Boxed(Str(TextB)))>>)>>),
       Array(<<>>)>>}

\* The root v with its fields 1, 2, 4, 5 replaced by o.
WithOtherFields(v, o) ==
    [v EXCEPT !.kids[2] = o[1], !.kids[3] = o[2], !.kids[5] = o[3], !.kids[6] = o[4]]

\* Fields 0 and 3 of the inputs: at most one metadata entry, every checksum.
TwinBases ==
    {Root(m, c) : m \in {Array(es) : es \in SeqsUpTo(Entries, 1)} \cup {UInt64(0)},
                  c \in ChecksumFields}

TwinInit ==
    /\ \E base \in TwinBases, o1 \in OtherFields, o2 \in OtherFields :
          /\ o1 # o2
          /\ variant = WithOtherFields(base, o1)
          /\ twin = [NoTwin EXCEPT !.variant = WithOtherFields(base, o2)]
    /\ BeforeLoad
    /\ threads = NoThreads
    /\ RoutesIdle

\* FlatpakFile::load on both inputs.
TwinLoad ==
    /\ pc = "start"
    /\ loadResult' = load(variant)
    /\ pc' = IF loadResult'.res = "Ok" THEN "loaded" ELSE "failed"
    /\ file' = IF loadResult'.res = "Ok" THEN variant ELSE NoVariant
    /\ oob' = (oob \/ AnyOutOfBounds(loadResult'.log))
    /\ twin' = [twin EXCEPT !.loadResult = load(twin.variant)]
    /\ UNCHANGED <<variant, lookup, hash, threads, routeVars>>

\* The same get_metadata_key call on both bundles.
TwinGetMetadataKey ==
    /\ pc = "loaded"
    /\ twin.loadResult.res = "Ok"
    /\ \E key \in RequestedKeys, ty \in RequestedTypes :
          LET got == get_metadata_key(file, key, ty)
              other == get_metadata_key(twin.variant, key, ty)
          IN /\ lookup' = [key |-> key, ty |-> ty, res |-> got.res, log |-> got.log]
             /\ twin' = [twin EXCEPT !.lookup =
                            [key |-> key, ty |-> ty, res |-> other.res, log |-> other.log]]
             /\ oob' = (oob \/ AnyOutOfBounds(got.log) \/ AnyOutOfBounds(other.log))
    /\ UNCHANGED <<variant, pc, file, loadResult, hash, threads, routeVars>>

\* get_hash on both bundles.
TwinGetHash ==
    /\ pc = "loaded"
    /\ twin.loadResult.res = "Ok"
    /\ hash' = get_hash(file)
    /\ twin' = [twin EXCEPT !.hash = get_hash(twin.variant)]
    /\ oob' = (oob \/ AnyOutOfBounds(hash'.log) \/ AnyOutOfBounds(twin'.hash.log))
    /\ UNCHANGED <<variant, pc, file, loadResult, lookup, threads, routeVars>>

TwinNext == TwinLoad \/ TwinGetMetadataKey \/ TwinGetHash

TwinSpec == TwinInit /\ [][TwinNext]_vars

(* ------------------------ routes: update_binary ----------------------- *)

RECURSIVE split_from(_, _, _)
\* str::split(sep) from the rest s on, cur being the component begun.
split_from(s, sep, cur) ==
    IF s = <<>> THEN <<cur>>
    ELSE IF Head(s) = sep THEN <<cur>> \o split_from(Tail(s), sep, <<>>)
    ELSE split_from(Tail(s), sep, Append(cur, Head(s)))

\* flatpak_ref.split('/').collect(): at least one component, empty ones kept.
split(s, sep) == split_from(s, sep, <<>>)

RECURSIVE Join(_, _)
\* The components joined with sep between them.
Join(parts, sep) ==
    IF Len(parts) = 0 THEN <<>>
    ELSE IF Len(parts) = 1 THEN parts[1]
    ELSE parts[1] \o <<sep>> \o Join(Tail(parts), sep)

\* "edu.rit.csh.devcade.game.id-"
AppIdPrefix == 
    <<"e", "d", "u", ".", "r", "i", "t", ".", "c", "s", "h", ".", "d", "e",
      "v", "c", "a", "d", "e", ".", "g", "a", "m", "e", ".", "i", "d", "-">>

\* format!("edu.rit.csh.devcade.game.id-{uuid}")
app_id_of(uuid) == AppIdPrefix \o uuid

KindApp == <<"a", "p", "p">>
ArchX86 == <<"x", "8", "6", "_", "6", "4">>
BranchMaster == <<"m", "a", "s", "t", "e", "r">>

\* Result<String, Box<dyn Error>> of verify_and_upload_game, with what it did.
VerifyErr(err, ref) ==
    [kind |-> "Err", hash |-> <<>>, uploaded |-> FALSE, err |-> err, ref |-> ref]
VerifyPanic(ref) ==
    [kind |-> "Panic", hash |-> <<>>, uploaded |-> FALSE, err |-> "index out of bounds",
     ref |-> ref]

\* Mutant of verify_and_upload_game: the result of send() is dropped, so a failed
\* upload still returns Ok(hash).
verify_and_upload_game_ignores_send(content_type, upload, uuid, fault) ==
    LET game_content_type ==
            IF content_type = "none" THEN "application/octet-stream" ELSE content_type
        loaded == load(upload)
        hashed == get_hash(upload)
        flatpak_ref == get_metadata_key(upload, KeyRef, "String").res
        ref == flatpak_ref.val.str
        components == split(ref, "/")
    IN IF game_content_type # "application/vnd.flatpak"
            /\ game_content_type # "application/octet-stream"
       THEN VerifyErr("Game provided is not a Flatpak!", <<>>)
       ELSE IF fault = "mmap" THEN VerifyErr("mmap", <<>>)
       ELSE IF loaded.res # "Ok" THEN VerifyErr(loaded.res, <<>>)
       ELSE IF hashed.kind # "Ok" THEN VerifyPanic(<<>>)
       ELSE IF flatpak_ref.kind # "Ok" THEN VerifyErr(flatpak_ref.kind, <<>>)
       ELSE IF components[1] # KindApp
       THEN VerifyErr("Flatpak must be of type app", ref)
       ELSE IF Len(components) < 2 THEN VerifyPanic(ref)
       ELSE IF components[2] # app_id_of(uuid)
       THEN VerifyErr("Flatpak app id must be app_id", ref)
       ELSE IF Len(components) < 3 THEN VerifyPanic(ref)
       ELSE IF components[3] # ArchX86
       THEN VerifyErr("Flatpak architecture must be x86_64", ref)
       ELSE IF Len(components) < 4 THEN VerifyPanic(ref)
       ELSE IF components[4] # BranchMaster
       THEN VerifyErr("Flatpak branch must be master", ref)
       ELSE IF fault = "from_path" THEN VerifyErr("from_path", ref)
       ELSE [kind |-> "Ok", hash |-> hashed.str, uploaded |-> fault # "send",
             err |-> "", ref |-> ref]

\* verify_and_upload_game(game, s3, uuid). content_type: the part's content type
\* ("none": absent); upload: the variant the file decodes to; fault: the i/o
\* step that fails ("mmap", "from_path", "send") if any. components[i] of the
\* code is components[i + 1] here and panics when i >= components.len().
verify_and_upload_game(content_type, upload, uuid, fault) ==
    LET game_content_type ==
            IF content_type = "none" THEN "application/octet-stream" ELSE content_type
        loaded == load(upload)
        hashed == get_hash(upload)
        flatpak_ref == get_metadata_key(upload, KeyRef, "String").res
        ref == flatpak_ref.val.str
        components == split(ref, "/")
    IN IF game_content_type # "application/vnd.flatpak"
            /\ game_content_type # "application/octet-stream"
       THEN VerifyErr("Game provided is not a Flatpak!", <<>>)
       ELSE IF fault = "mmap" THEN VerifyErr("mmap", <<>>)
       ELSE IF loaded.res # "Ok" THEN VerifyErr(loaded.res, <<>>)
       ELSE IF hashed.kind # "Ok" THEN VerifyPanic(<<>>)
       ELSE IF flatpak_ref.kind # "Ok" THEN VerifyErr(flatpak_ref.kind, <<>>)
       ELSE IF components[1] # KindApp
       THEN VerifyErr("Flatpak must be of type app", ref)
       ELSE IF Len(components) < 2 THEN VerifyPanic(ref)
       ELSE IF components[2] # app_id_of(uuid)
       THEN VerifyErr("Flatpak app id must be app_id", ref)
       ELSE IF Len(components) < 3 THEN VerifyPanic(ref)
       ELSE IF components[3] # ArchX86
       THEN VerifyErr("Flatpak architecture must be x86_64", ref)
       ELSE IF Len(components) < 4 THEN VerifyPanic(ref)
       ELSE IF components[4] # BranchMaster
       THEN VerifyErr("Flatpak branch must be master", ref)
       ELSE IF fault = "from_path" THEN VerifyErr("from_path", ref)
       ELSE IF fault = "send" THEN VerifyErr("send", ref)
       ELSE [kind |-> "Ok", hash |-> hashed.str, uploaded |-> TRUE,
             err |-> "", ref |-> ref]

\* s3.put_object().key(key).body(body): the object under key is replaced.
put_object(bucket, key, body) ==
    {o \in bucket : o.key # key} \cup {[key |-> key, body |-> body]}

\* format!("{}/{}.flatpak", uuid, uuid)
FlatpakKey(uuid) == uuid \o <<"/">> \o uuid \o <<".", "f", "l", "a", "t", "p", "a", "k">>

\* A bundle whose metadata is the one entry ("ref", value).
RefBundle(value, checksum) ==
    Root(Array(<<DictEntry(Str(KeyRef), value)>>), checksum)

\* The ref verify_and_upload_game expects for game id.
ExpectedRef(id) == Join(<<KindApp, app_id_of(id), ArchX86, BranchMaster>>, "/")

\* Ref strings for game id: the expected one; a wrong kind, app id,
\* architecture or branch; 1, 2 and 3 components; a fifth component; none.
RefStrings(id) ==
    LET ok == <<KindApp, app_id_of(id), ArchX86, BranchMaster>>
    IN {ExpectedRef(id),
        Join([ok EXCEPT ![1] = <<"r", "t">>], "/"),
        Join([ok EXCEPT ![2] = AppIdPrefix], "/"),
        Join([ok EXCEPT ![3] = <<"a", "r", "m">>], "/"),
        Join([ok EXCEPT ![4] = <<"d", "e", "v">>], "/"),
        KindApp,
        <<"x">>,
        Join(SubSeq(ok, 1, 2), "/"),
        Join(SubSeq(ok, 1, 3), "/"),
        Join(ok \o <<TextB>>, "/"),
        <<>>}

\* The game that has a row, and the id that has none.
StoredGame == <<"g", "1">>

\* What the uploaded file decodes to: bundles with a "ref", the expected ref
\* with another checksum and with a checksum of the wrong length, a bundle
\* without a "ref", and one whose "ref" is no string.
UploadInputs ==
    {RefBundle(Boxed(Str(r)), ByteArray(ChecksumLen, 9, 13)) : r \in RefStrings(StoredGame)}
      \cup {RefBundle(Boxed(Str(ExpectedRef(StoredGame))), c) :
               c \in {ByteArray(ChecksumLen, 0, 0), ByteArray(ChecksumLen + 1, 9, 13)}}
      \cup {Root(Array(<<>>), ByteArray(ChecksumLen, 9, 13)),
            RefBundle(Boxed(UInt64(5)), ByteArray(ChecksumLen, 9, 13))}

\* The content type of the uploaded part and the step of update_binary that
\* fails, if any: the SELECT, the mmap, ByteStream::from_path, the put_object
\* send, the UPDATE.
UploadConditions ==
    {[content_type |-> "none", fault |-> "none"],
     [content_type |-> "image/png", fault |-> "none"]}
      \cup {[content_type |-> "application/vnd.flatpak", fault |-> f] :
               f \in {"none", "select", "mmap", "from_path", "send", "update"}}

\* The bundle stored before the run, if any.
OldBundle == RefBundle(Boxed(Str(ExpectedRef(StoredGame))), ByteArray(ChecksumLen, 255, 0))

\* game holds StoredGame, without a hash or with the hash of OldBundle, whose
\* file is then in the bucket; the other id has no row.
UploadInit ==
    /\ variant = NoVariant
    /\ BeforeLoad
    /\ threads = NoThreads
    /\ twin = NoTwin
    /\ \/ /\ db = [EmptyDb EXCEPT !.game[StoredGame] = GameRow("n1", "d1", <<>>)]
          /\ s3 = {}
       \/ /\ db = [EmptyDb EXCEPT !.game[StoredGame] =
                      GameRow("n1", "d1", get_hash(OldBundle).str)]
          /\ s3 = {[key |-> FlatpakKey(StoredGame), body |-> OldBundle]}
    /\ req = NoRequest

\* PUT /games/{id}/game: update_binary.
UpdateBinary ==
    /\ req.seq < MaxRequests
    /\ \E id \in GameIds, upload \in UploadInputs, cond \in UploadConditions :
       LET found == db.game[id].present /\ cond.fault # "select"
           verified == verify_and_upload_game(cond.content_type, upload, id, cond.fault)
           this == [NoRequest EXCEPT !.seq = req.seq + 1, !.handler = "update_binary",
                                     !.id = id, !.before = db, !.upload = upload,
                                     !.fault = cond.fault,
                                     !.query_failed = cond.fault \in {"select", "update"}]
       IN IF ~found
          THEN /\ req' = [this EXCEPT !.status = 400]
               /\ UNCHANGED <<db, s3>>
          ELSE /\ s3' = IF verified.uploaded
                        THEN put_object(s3, FlatpakKey(id), upload) ELSE s3
               /\ IF verified.kind = "Ok" /\ cond.fault # "update"
                  THEN /\ db' = [db EXCEPT !.game[id].hash = verified.hash]
                       /\ req' = [this EXCEPT !.status = 200, !.verify = verified]
                  ELSE /\ db' = db
                       /\ req' = [this EXCEPT !.verify = verified,
                                     !.status = IF verified.kind = "Panic"
                                                THEN -1 ELSE 500]
    /\ UNCHANGED <<flatpakVars, threads, twin>>

UploadNext == UpdateBinary

UploadSpec == UploadInit /\ [][UploadNext]_vars

(* --------------------------- routes: add_game -------------------------- *)

\* Mime::type_(): the part of the content type before '/'.
type_(mime) == split(mime, "/")[1]

ImagePng == <<"i", "m", "a", "g", "e", "/", "p", "n", "g">>
TextPlain == <<"t", "e", "x", "t", "/", "p", "l", "a", "i", "n">>

\* ImageComponent::filename(): the variant's name in lower case.
filename(image_type) == IF image_type = "Banner" THEN "banner" ELSE "icon"

\* verify_and_upload_image(image, s3, image_type, uuid) on the bucket.
\* content_type: Option<Mime>; fault: the failing i/o step of this image
\* ("from_path", "send") if any. ok: Ok(()) was returned.
verify_and_upload_image(content_type, bucket, image_type, uuid, fault) ==
    IF content_type = <<>>
    THEN [ok |-> FALSE, err |-> "Could not determine file type", bucket |-> bucket]
    ELSE IF type_(content_type[1]) # <<"i", "m", "a", "g", "e">>
    THEN [ok |-> FALSE, err |-> "provided is not an image", bucket |-> bucket]
    ELSE IF fault \in {"from_path", "send"}
    THEN [ok |-> FALSE, err |-> fault, bucket |-> bucket]
    ELSE [ok |-> TRUE, err |-> "",
          bucket |-> put_object(bucket, <<uuid, filename(image_type)>>, image_type)]

\* verify_and_upload(banner, icon, s3, uuid): the banner, then the icon.
\* fault: [image, step], the image whose i/o step fails.
verify_and_upload(banner, icon, bucket, uuid, fault) ==
    LET first == verify_and_upload_image(banner, bucket, "Banner", uuid,
                    IF fault.image = "Banner" THEN fault.step ELSE "none")
        second == verify_and_upload_image(icon, first.bucket, "Icon", uuid,
                    IF fault.image = "Icon" THEN fault.step ELSE "none")
    IN IF ~first.ok THEN first ELSE second

RECURSIVE insert_tags(_, _, _, _, _)
\* The loop over form.tags.split(','): empty names are skipped, each other one
\* is inserted into game_tags; the failing_tag-th INSERT fails and ends the
\* loop. done counts the INSERTs so far.
insert_tags(tables, uuid, tag_names, done, failing_tag) ==
    IF tag_names = <<>> THEN [ok |-> TRUE, tables |-> tables]
    ELSE IF Head(tag_names) = <<>>
    THEN insert_tags(tables, uuid, Tail(tag_names), done, failing_tag)
    ELSE IF done + 1 = failing_tag THEN [ok |-> FALSE, tables |-> tables]
    ELSE insert_tags([tables EXCEPT !.tags = @ \cup {<<uuid, Head(tag_names)>>}],
                     uuid, Tail(tag_names), done + 1, failing_tag)

\* Values of form.tags: none, one, two, two around an empty name.
TagTexts ==
    {<<>>, <<"a">>, <<"a", ",", "b">>, <<"a", ",", ",", "b">>}

NoFault == [image |-> "none", step |-> "none"]

\* The content types of banner and icon with every step succeeding, and two
\* images with one failing step: an i/o step of one image, the INSERT into
\* game, the first or second INSERT into game_tags.
AddConditions ==
    {[banner |-> b, icon |-> i, fault |-> NoFault, query |-> "none", failing_tag |-> 0] :
        b \in {<<>>, <<ImagePng>>, <<TextPlain>>}, i \in {<<>>, <<ImagePng>>, <<TextPlain>>}}
      \cup {[banner |-> <<ImagePng>>, icon |-> <<ImagePng>>,
             fault |-> [image |-> c, step |-> f], query |-> "none", failing_tag |-> 0] :
               c \in {"Banner", "Icon"}, f \in {"from_path", "send"}}
      \cup {[banner |-> <<ImagePng>>, icon |-> <<ImagePng>>, fault |-> NoFault,
             query |-> "insert_game", failing_tag |-> 0]}
      \cup {[banner |-> <<ImagePng>>, icon |-> <<ImagePng>>, fault |-> NoFault,
             query |-> "insert_tag", failing_tag |-> k] : k \in {1, 2}}

AddInit ==
    /\ variant = NoVariant
    /\ BeforeLoad
    /\ threads = NoThreads
    /\ twin = NoTwin
    /\ RoutesIdle

\* POST /games/: add_game. uuid: Uuid::new_v4(), an id no row has.
AddGame ==
    /\ req.seq < MaxRequests
    /\ \E uuid \in {id \in GameIds : ~db.game[id].present},
          cond \in AddConditions, tags \in TagTexts :
       LET uploaded == verify_and_upload(cond.banner, cond.icon, s3, uuid, cond.fault)
           inserted == [db EXCEPT !.game[uuid] = GameRow("n2", "d2", <<>>)]
           tagged == insert_tags(inserted, uuid, split(tags, ","), 0, cond.failing_tag)
           this == [NoRequest EXCEPT !.seq = req.seq + 1, !.handler = "add_game",
                                     !.id = uuid, !.before = db,
                                     !.upload = [banner |-> cond.banner, icon |-> cond.icon],
                                     !.verify.kind = IF uploaded.ok THEN "Ok" ELSE "Err",
                                     !.verify.err = uploaded.err,
                                     !.name = "n2", !.description = "d2",
                                     !.tags = tags, !.fault = cond.query]
       IN /\ s3' = uploaded.bucket
          /\ IF ~uploaded.ok
             THEN /\ db' = db
                  /\ req' = [this EXCEPT !.status = 406]
             ELSE IF cond.query = "insert_game"
             THEN /\ db' = db
                  /\ req' = [this EXCEPT !.status = 500, !.query_failed = TRUE]
             ELSE /\ db' = tagged.tables
                  /\ req' = IF tagged.ok
                            THEN [this EXCEPT !.status = 201]
                            ELSE [this EXCEPT !.status = 400, !.query_failed = TRUE]
    /\ UNCHANGED <<flatpakVars, threads, twin>>

AddNext == AddGame

AddSpec == AddInit /\ [][AddNext]_vars

(* -------------------------- routes: edit_game -------------------------- *)

RECURSIVE insert_each_tag(_, _, _, _, _)
\* The loop over game_data.tags inside the transaction: every name is inserted
\* into game_tags; the failing_tag-th INSERT fails and ends the loop.
insert_each_tag(tables, id, tag_names, done, failing_tag) ==
    IF tag_names = <<>> THEN [ok |-> TRUE, tables |-> tables]
    ELSE IF done + 1 = failing_tag THEN [ok |-> FALSE, tables |-> tables]
    ELSE insert_each_tag([tables EXCEPT !.tags = @ \cup {<<id, Head(tag_names)>>}],
                         id, Tail(tag_names), done + 1, failing_tag)

\* Values of game_data.tags.
TagLists == {<<>>, <<<<"a">>>>, <<<<"a">>, <<"b">>>>}

\* The step of edit_game that fails, if any: db.begin(), the SELECT, the
\* UPDATE, the DELETE, the first or second INSERT, the commit.
EditFaults ==
    {[step |-> f, failing_tag |-> 0] :
        f \in {"none", "begin", "select", "update", "delete", "commit"}}
      \cup {[step |-> "insert_tag", failing_tag |-> k] : k \in {1, 2}}

\* game holds StoredGame with one tag; the other id has no row.
EditInit ==
    /\ variant = NoVariant
    /\ BeforeLoad
    /\ threads = NoThreads
    /\ twin = NoTwin
    /\ db = [game |-> [EmptyDb.game EXCEPT ![StoredGame] = GameRow("n1", "d1", <<>>)],
             tags |-> {<<StoredGame, <<"x">>>>}]
    /\ s3 = {}
    /\ req = NoRequest

\* PUT /games/{id}: edit_game. The statements run on the transaction's view of
\* the tables; a rollback, or a commit that fails, leaves db as it was.
EditGame ==
    /\ req.seq < MaxRequests
    /\ \E id \in GameIds, name \in {"n1", "n3"}, description \in {"d1", "d3"},
          tags \in TagLists, fault \in EditFaults :
       LET found == db.game[id].present /\ fault.step # "select"
           updated == [db EXCEPT !.game[id].name = name,
                                 !.game[id].description = description]
           deleted == [updated EXCEPT !.tags = {r \in @ : r[1] # id}]
           tagged == insert_each_tag(deleted, id, tags, 0, fault.failing_tag)
           this == [NoRequest EXCEPT !.seq = req.seq + 1, !.handler = "edit_game",
                                     !.id = id, !.before = db, !.name = name,
                                     !.description = description, !.tags = tags,
                                     !.fault = fault.step]
       IN IF fault.step = "begin"
          THEN /\ db' = db
               /\ req' = [this EXCEPT !.status = -1]
          ELSE IF ~found
          THEN /\ db' = db
               /\ req' = [this EXCEPT !.status = 400,
                                      !.query_failed = fault.step = "select"]
          ELSE IF fault.step \in {"update", "delete"}
          THEN /\ db' = db
               /\ req' = [this EXCEPT !.status = 500, !.query_failed = TRUE]
          ELSE IF ~tagged.ok
          THEN /\ db' = db
               /\ req' = [this EXCEPT !.status = 400, !.query_failed = TRUE]
          ELSE /\ db' = IF fault.step = "commit" THEN db ELSE tagged.tables
               /\ req' = [this EXCEPT !.status = 200]
    /\ UNCHANGED <<flatpakVars, threads, twin, s3>>

EditNext == EditGame

EditSpec == EditInit /\ [][EditNext]_vars

(* --------------- several threads sharing one FlatpakFile -------------- *)

\* One pass of the loop of get_metadata_key at `index`, or its exit: done with
\* the result, or not done and the loop goes on at index + 1.
lookup_step(dict_array, key, ty, index) ==
    IF index >= n_children(dict_array) THEN [done |-> TRUE, res |-> MissingKey(key)]
    ELSE LET dict_entry == child_value(dict_array, index)
             candidate_key == from_variant("String", child_value(dict_entry, 0))
         IN IF candidate_key # <<>> /\ candidate_key[1].str = key
            THEN [done |-> TRUE, res |-> decode_value(child_value(dict_entry, 1), key, ty)]
            ELSE [done |-> FALSE, res |-> NoResult]

\* Bundles that load: no entries; an entry with a key that is no string before
\* a match; a value boxed twice.
ConcInputs ==
    {Root(Array(es), ByteArray(ChecksumLen, 9, 13)) :
        es \in {<<>>,
                <<DictEntry(UInt64(7), Boxed(Str(TextA))),
                  DictEntry(Str(KeyRef), Boxed(Str(TextA)))>>,
                <<DictEntry(Str(KeyRef), Boxed(Boxed(Str(TextA)))),
                  DictEntry(Str(KeyId), Str(TextB))>>}}

ConcInit ==
    /\ variant \in ConcInputs
    /\ BeforeLoad
    /\ threads = NoThreads
    /\ twin = NoTwin
    /\ RoutesIdle

\* Thread t calls get_metadata_key::<T>(key) or get_hash on the shared bundle.
ThreadCall(t) ==
    /\ pc = "loaded"
    /\ threads[t].st = "idle"
    /\ \/ \E key \in RequestedKeys, ty \in RequestedTypes :
             threads' = [threads EXCEPT ![t] =
                 [IdleThread EXCEPT !.st = "running", !.op = "lookup",
                                    !.key = key, !.ty = ty]]
       \/ threads' = [threads EXCEPT ![t] =
                 [IdleThread EXCEPT !.st = "running", !.op = "hash"]]
    /\ UNCHANGED <<flatpakVars, twin, routeVars>>

\* Mutant of ThreadStep: a loop pass that finds the key stores the unboxed value
\* back into the bundle.
ThreadStep_unbox_in_place(t) ==
    /\ threads[t].st = "running"
    /\ LET me == threads[t]
           dict_array == child_value(file, MetadataIndex)
           step == lookup_step(dict_array, me.key, me.ty, me.index)
           found == me.op = "lookup" /\ step.done /\ me.index < n_children(dict_array)
       IN /\ IF me.op = "lookup"
             THEN threads' = [threads EXCEPT ![t] =
                     IF step.done
                     THEN [me EXCEPT !.st = "done", !.res = step.res]
                     ELSE [me EXCEPT !.index = me.index + 1]]
             ELSE threads' = [threads EXCEPT ![t] =
                     [me EXCEPT !.st = "done", !.hash = get_hash(file)]]
          /\ file' = IF found
                     THEN [file EXCEPT !.kids[1].kids[me.index + 1].kids[2] =
                              unbox_once(@)]
                     ELSE file
    /\ UNCHANGED <<variant, pc, loadResult, lookup, hash, oob, twin, routeVars>>

\* Thread t runs one pass of the loop of get_metadata_key, or get_hash; both
\* take &self and write nothing the threads share.
ThreadStep(t) ==
    /\ threads[t].st = "running"
    /\ LET me == threads[t]
           step == lookup_step(child_value(file, MetadataIndex), me.key, me.ty, me.index)
       IN IF me.op = "lookup"
          THEN threads' = [threads EXCEPT ![t] =
                  IF step.done
                  THEN [me EXCEPT !.st = "done", !.res = step.res]
                  ELSE [me EXCEPT !.index = me.index + 1]]
          ELSE threads' = [threads EXCEPT ![t] =
                  [me EXCEPT !.st = "done", !.hash = get_hash(file)]]
    /\ UNCHANGED <<flatpakVars, twin, routeVars>>

\* The caller of thread t takes the result; the thread may call again.
ThreadReturn(t) ==
    /\ threads[t].st = "done"
    /\ threads' = [threads EXCEPT ![t] = IdleThread]
    /\ UNCHANGED <<flatpakVars, twin, routeVars>>

ConcNext ==
    \/ Load
    \/ \E t \in Threads : ThreadCall(t)
    \/ \E t \in Threads : ThreadStep(t)
    \/ \E t \in Threads : ThreadReturn(t)

ConcSpec == ConcInit /\ [][ConcNext]_vars


(* =============================== claims =============================== *)

\* Field i (zero-based) of the root tuple, and the metadata entries, read
\* directly from the input.
FieldOf(v, i) == v.kids[i + 1]
EntriesOf(v) == FieldOf(v, 0).kids

\* The three structural conditions, stated on the input.
MetadataIsContainer(v) == FieldOf(v, 0).tag \in {"Tuple", "Array", "DictEntry", "Boxed"}
EntryIsPair(e) == e.tag \in {"Tuple", "Array", "DictEntry", "Boxed"} /\ Len(e.kids) = 2
BadEntryIndices(v) == {i \in 1..Len(EntriesOf(v)) : ~EntryIsPair(EntriesOf(v)[i])}
AllEntriesArePairs(v) == BadEntryIndices(v) = {}
ChecksumCount(v) == Len(FieldOf(v, 3).kids)
ChecksumIsContainer(v) == FieldOf(v, 3).tag \in {"Tuple", "Array", "DictEntry", "Boxed"}
ChecksumHas32(v) == ChecksumIsContainer(v) /\ ChecksumCount(v) = 32

\* The zero-based indices of the accesses of `log` made on `of`.
IndicesOn(log, of) == {log[i].index : i \in {j \in 1..Len(log) : log[j].of = of}}

LoadReturned == pc # "start"

\* C1: load returns Ok exactly when field 0 is a container, every metadata
\* entry is a container with exactly 2 children and field 3 is a container
\* with exactly 32 children; otherwise it returns one of MetadataNotContainer,
\* MetadataChildNotContainer, BadChecksumLength and no FlatpakFile exists.
C1_LoadOkIffStructureValid ==
    LoadReturned =>
        /\ (loadResult.res = "Ok") <=>
              (MetadataIsContainer(variant) /\ AllEntriesArePairs(variant)
                 /\ ChecksumHas32(variant))
        /\ loadResult.res \in {"Ok", "MetadataNotContainer",
                               "MetadataChildNotContainer", "BadChecksumLength"}
        /\ (loadResult.res = "Ok" => pc = "loaded" /\ file = variant)
        /\ (loadResult.res # "Ok" => pc = "failed" /\ file = NoVariant)

\* load succeeded on an input with at least two metadata entries.
C1_Witness ==
    /\ pc = "loaded"
    /\ loadResult.res = "Ok"
    /\ Len(EntriesOf(variant)) >= 2

\* C2: when field 0 is not a container, load returns MetadataNotContainer
\* whatever the checksum field is, having read nothing but field 0.
C2_MetadataNotContainerFirst ==
    (LoadReturned /\ ~MetadataIsContainer(variant)) =>
        /\ loadResult.res = "MetadataNotContainer"
        /\ loadResult.log = <<[of |-> "root", index |-> 0, ok |-> TRUE]>>

\* load failed on a scalar field 0 together with a checksum of the wrong length.
C2_Witness ==
    /\ pc = "failed"
    /\ ~MetadataIsContainer(variant)
    /\ ~ChecksumHas32(variant)
    /\ loadResult.res = "MetadataNotContainer"

\* C3: when field 0 is a container and some entry is not a container with
\* exactly 2 children, load returns MetadataChildNotContainer; it fetched the
\* entries from index 0 up to the first such entry, in order, each once, and
\* never read the checksum field.
C3_FirstBadEntryStopsScan ==
    (LoadReturned /\ MetadataIsContainer(variant) /\ ~AllEntriesArePairs(variant)) =>
        LET firstBad == CHOOSE i \in BadEntryIndices(variant) :
                            \A j \in BadEntryIndices(variant) : i <= j
        IN /\ loadResult.res = "MetadataChildNotContainer"
           /\ Len(loadResult.log) = 1 + firstBad
           /\ loadResult.log[1] = [of |-> "root", index |-> 0, ok |-> TRUE]
           /\ \A i \in 1..firstBad :
                 loadResult.log[1 + i] = [of |-> "metadata", index |-> i - 1, ok |-> TRUE]

\* load failed on a bad first entry that is followed by another entry, the
\* checksum having the wrong length as well.
C3_Witness ==
    /\ pc = "failed"
    /\ MetadataIsContainer(variant)
    /\ 1 \in BadEntryIndices(variant)
    /\ Len(EntriesOf(variant)) >= 2
    /\ ~ChecksumHas32(variant)
    /\ loadResult.res = "MetadataChildNotContainer"

\* C4: when the metadata checks pass, a checksum field that does not have
\* exactly 32 elements makes load return BadChecksumLength; a checksum field
\* of exactly 32 elements never gives BadChecksumLength.
C4_ChecksumLength ==
    LoadReturned =>
        /\ (MetadataIsContainer(variant) /\ AllEntriesArePairs(variant)
              /\ ~ChecksumHas32(variant)) => loadResult.res = "BadChecksumLength"
        /\ ChecksumHas32(variant) => loadResult.res # "BadChecksumLength"

\* load returned BadChecksumLength for a checksum of 33 elements.
C4_Witness ==
    /\ pc = "failed"
    /\ ChecksumIsContainer(variant)
    /\ ChecksumCount(variant) = 33
    /\ loadResult.res = "BadChecksumLength"

\* The value of a lowercase hex character, 16 for any other character.
HexValue(c) ==
    CASE c = "0" -> 0 [] c = "1" -> 1 [] c = "2" -> 2 [] c = "3" -> 3
      [] c = "4" -> 4 [] c = "5" -> 5 [] c = "6" -> 6 [] c = "7" -> 7
      [] c = "8" -> 8 [] c = "9" -> 9 [] c = "a" -> 10 [] c = "b" -> 11
      [] c = "c" -> 12 [] c = "d" -> 13 [] c = "e" -> 14 [] c = "f" -> 15
      [] OTHER -> 16

\* C5: on a loaded bundle get_hash does not panic and returns 64 characters,
\* each in 0-9a-f, the i-th pair of which is byte i of field 3 in hexadecimal.
C5_HashIsHexOfChecksum ==
    hash.kind # "None" =>
        /\ hash.kind = "Ok"
        /\ Len(hash.str) = 64
        /\ \A i \in 1..Len(hash.str) : HexValue(hash.str[i]) < 16
        /\ \A i \in 1..32 :
              16 * HexValue(hash.str[2 * i - 1]) + HexValue(hash.str[2 * i])
                 = FieldOf(file, 3).kids[i].num

\* get_hash returned for a bundle whose checksum bytes are not all equal.
C5_Witness ==
    /\ hash.kind = "Ok"
    /\ FieldOf(file, 3).kids[1].num # FieldOf(file, 3).kids[2].num
    /\ FieldOf(file, 3).kids[1].num < 16

\* The (one-based) positions of the entries of the bundle whose key is the
\* string `key`.
MatchingIndices(f, key) ==
    {i \in 1..Len(EntriesOf(f)) :
        /\ EntriesOf(f)[i].kids[1].tag = "String"
        /\ EntriesOf(f)[i].kids[1].str = key}
FirstMatch(f, key) ==
    CHOOSE i \in MatchingIndices(f, key) : \A j \in MatchingIndices(f, key) : i <= j

\* The stored value with at most one level of boxing taken off.
Payload(v) == IF v.tag = "Boxed" THEN v.kids[1] ELSE v

\* What decoding the stored value v as ty must give.
ExpectedResult(v, key, ty) ==
    IF ty = "String" /\ Payload(v).tag = "String"
    THEN OkValue(Decoded("String", Payload(v).str, <<>>))
    ELSE IF ty = "u64" /\ Payload(v).tag = "UInt64"
    THEN OkValue(Decoded("u64", <<>>, <<Payload(v).num>>))
    ELSE IncorrectFormat(key)

LookupReturned == lookup.ty # "none"

\* C6: the first entry, in stored order, whose key is the requested string
\* decides get_metadata_key: its value decoded as T, or IncorrectFormat(key)
\* when it does not decode; no entry after it is fetched.
C6_FirstMatchDecides ==
    (LookupReturned /\ MatchingIndices(file, lookup.key) # {}) =>
        LET first == FirstMatch(file, lookup.key)
        IN /\ lookup.res = ExpectedResult(EntriesOf(file)[first].kids[2],
                                          lookup.key, lookup.ty)
           /\ IndicesOn(lookup.log, "metadata") = 0..(first - 1)

\* ("ref", wrong-typed) before ("ref", string): the lookup of "ref" as a string
\* returned IncorrectFormat("ref").
C6_Witness ==
    /\ LookupReturned
    /\ lookup.key = KeyRef
    /\ lookup.ty = "String"
    /\ Len(EntriesOf(file)) >= 2
    /\ EntriesOf(file)[1] = DictEntry(Str(KeyRef), Boxed(UInt64(5)))
    /\ EntriesOf(file)[2] = DictEntry(Str(KeyRef), Boxed(Str(TextA)))
    /\ lookup.res = IncorrectFormat(KeyRef)

\* C7: get_metadata_key returns MissingKey exactly when no entry has the
\* requested string as its key, and the error carries the requested key.
C7_MissingKeyIffNoMatch ==
    LookupReturned =>
        /\ (lookup.res.kind = "MissingKey") <=> (MatchingIndices(file, lookup.key) = {})
        /\ lookup.res.kind = "MissingKey" => lookup.res = MissingKey(lookup.key)

\* A lookup on empty metadata returned MissingKey with the key asked for.
C7_Witness ==
    /\ LookupReturned
    /\ EntriesOf(file) = <<>>
    /\ lookup.res = MissingKey(lookup.key)
    /\ lookup.key = KeyRef

\* The bundle f with the value of entry i (one-based) replaced by v.
WithValue(f, i, v) ==
    [f EXCEPT !.kids[1].kids[i].kids[2] = v]

\* C8: the result of get_metadata_key is the same whether the value of the
\* first matching entry is stored unboxed or boxed once; unbox_once takes one
\* box off a boxed value and returns any other value as it is.
C8_BoxedZeroOrOnce ==
    (LookupReturned /\ MatchingIndices(file, lookup.key) # {}) =>
        LET first == FirstMatch(file, lookup.key)
            stored == EntriesOf(file)[first].kids[2]
            bare == Payload(stored)
        IN bare.tag # "Boxed" =>
              /\ unbox_once(bare) = bare
              /\ unbox_once(Boxed(bare)) = bare
              /\ lookup.res = get_metadata_key(WithValue(file, first, bare),
                                               lookup.key, lookup.ty).res
              /\ lookup.res = get_metadata_key(WithValue(file, first, Boxed(bare)),
                                               lookup.key, lookup.ty).res

\* A lookup succeeded on a value stored without a box.
C8_Witness ==
    /\ LookupReturned
    /\ MatchingIndices(file, lookup.key) # {}
    /\ EntriesOf(file)[FirstMatch(file, lookup.key)].kids[2] = Str(TextA)
    /\ lookup.res = OkValue(Decoded("String", TextA, <<>>))


\* The bundle f without the entries whose key is not a string.
WithoutUndecodableKeys(f) ==
    [f EXCEPT !.kids[1].kids = SelectSeq(@, LAMBDA e : e.kids[1].tag = "String")]

\* The number of entries get_metadata_key has to fetch: up to the first match,
\* or all of them when none matches.
EntriesToFetch(f, key) ==
    IF MatchingIndices(f, key) = {} THEN Len(EntriesOf(f)) ELSE FirstMatch(f, key)

\* C9: an entry whose key does not decode as a string is skipped: the lookup
\* returns what it returns on the bundle without such entries, it is Ok,
\* MissingKey or IncorrectFormat as the remaining entries decide, and the scan
\* fetches every entry up to the first match (all of them when none matches).
C9_UndecodableKeySkipped ==
    LookupReturned =>
        /\ lookup.res = get_metadata_key(WithoutUndecodableKeys(file),
                                         lookup.key, lookup.ty).res
        /\ IndicesOn(lookup.log, "metadata") = 0..(EntriesToFetch(file, lookup.key) - 1)
        /\ (MatchingIndices(file, lookup.key) # {}) => lookup.res.kind # "MissingKey"
        /\ (\A i \in 1..Len(EntriesOf(file)) : EntriesOf(file)[i].kids[1].tag # "String")
              => lookup.res = MissingKey(lookup.key)

\* An entry with a key that is not a string comes first, a matching entry
\* second, and the lookup succeeded.
C9_Witness ==
    /\ LookupReturned
    /\ Len(EntriesOf(file)) >= 2
    /\ EntriesOf(file)[1].kids[1].tag # "String"
    /\ 2 \in MatchingIndices(file, lookup.key)
    /\ lookup.res.kind = "Ok"

\* Every access of `log` is within bounds.
AllInBounds(log) == \A i \in 1..Len(log) : log[i].ok

\* C10: no child_value call of load, get_metadata_key or get_hash asks for an
\* index at or above the child count: the root is read at 0 and 3 only, a
\* metadata entry at 0 and 1 only, and none of the three panics on an access.
C10_NoOutOfBoundsAccess ==
    /\ ~oob
    /\ AllInBounds(loadResult.log) /\ AllInBounds(lookup.log) /\ AllInBounds(hash.log)
    /\ IndicesOn(loadResult.log, "root") \subseteq {0, 3}
    /\ IndicesOn(lookup.log, "root") \subseteq {0}
    /\ IndicesOn(hash.log, "root") \subseteq {3}
    /\ IndicesOn(lookup.log, "entry") \subseteq {0, 1}
    /\ loadResult.res # "Panic"
    /\ lookup.res.kind # "Panic"

\* After load, a lookup read key and value of a matching entry and get_hash
\* read the checksum.
C10_Witness ==
    /\ pc = "loaded"
    /\ LookupReturned
    /\ IndicesOn(lookup.log, "entry") = {0, 1}
    /\ hash.kind = "Ok"
    /\ ~oob


\* C11: get_metadata_key and get_hash leave the loaded bundle as load returned
\* it, and with several threads calling them on the same bundle in any
\* interleaving every finished call has the result the same call has alone.
C11_ConcurrentCallsAsAlone ==
    /\ pc = "loaded" => file = variant
    /\ \A t \in Threads :
          threads[t].st = "done" =>
             /\ threads[t].op = "lookup" =>
                   threads[t].res =
                       get_metadata_key(variant, threads[t].key, threads[t].ty).res
             /\ threads[t].op = "hash" =>
                   /\ threads[t].hash.kind = "Ok"
                   /\ threads[t].hash.str = get_hash(variant).str

\* Two threads have finished a lookup of the same key on the same bundle, one
\* of them after the other had started.
C11_Witness ==
    /\ pc = "loaded"
    /\ threads[1].st = "done" /\ threads[1].op = "lookup"
    /\ threads[2].st = "done" /\ threads[2].op = "lookup"
    /\ threads[1].key = threads[2].key
    /\ threads[1].res.kind = "IncorrectFormat"

\* The two inputs agree on fields 0 and 3 and differ in field 1, 2, 4 or 5.
TwinsDifferElsewhere ==
    /\ twin.variant # NoVariant
    /\ FieldOf(twin.variant, 0) = FieldOf(variant, 0)
    /\ FieldOf(twin.variant, 3) = FieldOf(variant, 3)
    /\ twin.variant # variant

\* C12: two inputs that agree on the metadata field and the checksum field and
\* differ only in fields 1, 2, 4 or 5 get the same load result, and on success
\* the same get_metadata_key and get_hash results.
C12_OnlyFields0And3Matter ==
    (LoadReturned /\ TwinsDifferElsewhere) =>
        /\ twin.loadResult.res = loadResult.res
        /\ twin.lookup.key = lookup.key /\ twin.lookup.ty = lookup.ty
        /\ twin.lookup.res = lookup.res
        /\ twin.hash.kind = hash.kind /\ twin.hash.str = hash.str

\* Both inputs loaded, they differ in field 2, and a lookup and get_hash have
\* returned on both.
C12_Witness ==
    /\ pc = "loaded"
    /\ TwinsDifferElsewhere
    /\ FieldOf(twin.variant, 2) # FieldOf(variant, 2)
    /\ twin.loadResult.res = "Ok"
    /\ lookup.res.kind = "Ok" /\ twin.lookup.res.kind = "Ok"
    /\ hash.kind = "Ok" /\ twin.hash.kind = "Ok"


\* ---- routes: verify_and_upload_game and update_binary ----

\* The "ref" string of the bundle a request uploaded.
RefOf(upload) == get_metadata_key(upload, KeyRef, "String").res

\* The bundle loads and holds a "ref" string.
HasRefString(upload) == load(upload).res = "Ok" /\ RefOf(upload).kind = "Ok"

\* The ref has the form kind/app-id/architecture/branch expected for game id.
HasExpectedForm(ref, id) ==
    LET components == split(ref, "/")
    IN /\ Len(components) >= 4
       /\ components[1] = KindApp
       /\ components[2] = app_id_of(id)
       /\ components[3] = ArchX86
       /\ components[4] = BranchMaster

\* update_binary called verify_and_upload_game for the last request.
VerifyCalled == req.handler = "update_binary" /\ req.verify.kind # "None"

\* C13: verify_and_upload_game uploads only after the bundle loaded and its ref
\* was validated on kind, app id, architecture and branch; for every ref that
\* does not have this form, one with fewer than 4 components included, it
\* returns an error value and uploads nothing.
C13_UploadOnlyAfterRefValidated ==
    VerifyCalled =>
        /\ req.verify.uploaded =>
              /\ HasRefString(req.upload)
              /\ HasExpectedForm(RefOf(req.upload).val.str, req.id)
        /\ (HasRefString(req.upload)
              /\ ~HasExpectedForm(RefOf(req.upload).val.str, req.id)) =>
              /\ req.verify.kind = "Err"
              /\ ~req.verify.uploaded

\* C15: update_binary writes the hash column only after verification passed and
\* the upload succeeded, the value written is get_hash of the uploaded bundle,
\* and on a verification or upload failure the stored hash is as before.
C15_HashWrittenOnlyAfterUpload ==
    req.handler = "update_binary" =>
        LET old == req.before.game[req.id].hash
            new == db.game[req.id].hash
        IN /\ db = [req.before EXCEPT !.game[req.id].hash = new]
           /\ (req.verify.kind # "Ok" \/ ~req.verify.uploaded) => db = req.before
           /\ (new # old \/ req.status = 200) =>
                 /\ req.verify.kind = "Ok"
                 /\ req.verify.uploaded
                 /\ load(req.upload).res = "Ok"
                 /\ new = get_hash(req.upload).str
                 /\ [key |-> FlatpakKey(req.id), body |-> req.upload] \in s3

\* A stored hash was replaced by the hash of a verified, uploaded bundle.
C15_Witness ==
    /\ req.handler = "update_binary"
    /\ req.status = 200
    /\ req.before.game[req.id].hash # <<>>
    /\ db.game[req.id].hash # req.before.game[req.id].hash


\* ---- routes: add_game ----

\* A content type that is present and not of type image.
NotAnImage(content_type) ==
    content_type # <<>> /\ type_(content_type[1]) # <<"i", "m", "a", "g", "e">>

\* The names in a form.tags text.
TagNames(tags) == {t \in {split(tags, ",")[i] : i \in 1..Len(split(tags, ","))} : t # <<>>}

\* C14: add_game answers with 201 when the game was created, 400 when the
\* uploaded files have an invalid format, 500 when a query fails, and with no
\* other status.
C14_AddGameDocumentedStatuses ==
    req.handler = "add_game" =>
        /\ req.status \in {201, 400, 500}
        /\ req.status = 201 =>
              /\ db.game[req.id] = GameRow(req.name, req.description, <<>>)
              /\ db.tags = req.before.tags \cup {<<req.id, t>> : t \in TagNames(req.tags)}
        /\ (NotAnImage(req.upload.banner) \/ NotAnImage(req.upload.icon)) =>
              req.status = 400
        /\ req.query_failed => req.status = 500


\* ---- routes: edit_game ----

\* The tables with the request's name, description and tags for its game.
Edited(tables, request) ==
    [game |-> [tables.game EXCEPT ![request.id].name = request.name,
                                  ![request.id].description = request.description],
     tags |-> {r \in tables.tags : r[1] # request.id}
                 \cup {<<request.id, request.tags[i]>> : i \in 1..Len(request.tags)}]

\* C16: edit_game responds 200 only if the update of name and description, the
\* deletion of the old tags and the insertion of every new tag were committed
\* together, and on every other response the tables are as before the request.
C16_EditGameAllOrNothing ==
    req.handler = "edit_game" =>
        /\ req.status = 200 => db = Edited(req.before, req)
        /\ req.status # 200 => db = req.before

====
